---- MODULE Spec2Model ----
(***************************************************************************)
(* Model of src/main.py: the Bybit P2P worker bot.                         *)
(*                                                                         *)
(* The state store (price band, buy bounds, flags, history), the engine    *)
(* (worker thread, stop event, seen set), the front-end handlers that      *)
(* write the configuration, and the gateway as a nondeterministic          *)
(* environment.  Money amounts of the listings are held in tenths so that  *)
(* the float -> int conversion of the source is a real truncation.         *)
(***************************************************************************)
EXTENDS Integers, Sequences, FiniteSets, TLC

\* ------------------------------------------------------------------ bounds

\* Worker thread objects that can exist at once (dead ones are reused).
NThreads == 2
\* Listings in one gateway response.
MaxBatch == 2
\* Calls of create_buy_order in one behaviour.
MaxAttempts == 1
\* The clock stops here (days).
MaxTime == 15
\* The clock advances in steps of this many days.
TickDays == 15
\* The seen-set cap; stands for the 1000 of line 273.
SeenCap == 1
\* Records in a history handed to prune_history on its own.
MaxHist == 3

\* --------------------------------------------------------------- constants

RETENTION_DAYS == 10
DEFAULT_PRICE_MIN == 1400
DEFAULT_PRICE_MAX == 1455
DEFAULT_MIN_BUY == 10000
DEFAULT_MAX_BUY == 1000000
\* float(... or 1e18): the limit of a listing that names no maxLimit (tenths).
NO_AD_MAX == 2000000000
\* Listing limits are floats; the model holds them in tenths of a fiat unit.
Tenths == 10

\* int(x) of a non-negative float held in tenths: truncation.
IntOf(x) == x \div Tenths
\* The float value of an int, in tenths.
FloatOf(n) == n * Tenths

\* ------------------------------------------------------------------ domain

Threads == 1..NThreads

\* A listing as the gateway returns it.  price: "num" (parses), "missing"
\* (no price key) or "bad" (float() raises).  adId = "" when the listing has
\* no adId/advertisementId/id; synth is then str(price) + "_" + sellerId.
\* hasMin/hasMax: whether minLimit/maxLimit is present (and truthy).
Listing(id, synth, pk, p, hmin, lo, hmax, hi) ==
    [adId |-> id, synth |-> synth, priceKind |-> pk, price |-> p,
     hasMin |-> hmin, minLimit |-> lo, hasMax |-> hmax, maxLimit |-> hi]

A1 == Listing("A1", "", "num", 1400, TRUE, 50000, TRUE, 20000000)
A2 == Listing("A2", "", "num", 1455, TRUE, 120005, TRUE, 500000)
N3 == Listing("", "1456_S1", "num", 1456, FALSE, 0, FALSE, 0)
A4 == Listing("A4", "", "num", 1420, TRUE, 10000, TRUE, 80000)
A5 == Listing("A5", "", "num", 1399, FALSE, 0, FALSE, 0)
A6 == Listing("A6", "", "bad", 0, TRUE, 50000, TRUE, 20000000)
A7 == Listing("A7", "", "missing", 0, TRUE, 50000, TRUE, 20000000)
A8 == Listing("A8", "", "num", 1430, FALSE, 0, FALSE, 0)
A9 == Listing("A9", "", "num", 1458, FALSE, 0, FALSE, 0)
A10 == Listing("A10", "", "num", 1410, TRUE, 15000000, TRUE, 20000000)

\* The sequences of at most n members of S.
RECURSIVE SeqsUpTo(_, _)
SeqsUpTo(S, n) ==
    IF n = 0 THEN { <<>> }
    ELSE LET shorter == SeqsUpTo(S, n - 1)
         IN  shorter \cup { Append(s, a) : s \in { x \in shorter : Len(x) = n - 1 },
                                          a \in S }

\* The ranges the front end can be sent ("min-max").
RangeInputs == { <<1400, 1455>>, <<1456, 1500>>, <<1500, 1400>> }

\* The order results of the gateway: None, or a dict with or without orderId.
NullResp == [kind |-> "null", orderId |-> ""]
Responses == { NullResp, [kind |-> "dict", orderId |-> "O1"],
               [kind |-> "dict", orderId |-> ""] }

IsoTs(t) == [kind |-> "iso", t |-> t]

VARIABLES
    price_min, price_max,   \* state["price_range"]
    min_buy, max_buy,       \* state["min_buy"], state["max_buy"]
    auto_start, bot_running,\* state["auto_start"], state["bot_running"]
    history,                \* state["history"], most recent first
    disk,                   \* what save_state wrote last
    client,                 \* whether build_bybit_client returned a client
    stop_event,             \* BotEngine._stop_event
    thread,                 \* BotEngine.thread: the thread object start() looks at
    pc,                     \* per thread object: where its worker_loop is
    loc,                    \* per thread object: the locals of worker_loop
    seen_ads,               \* BotEngine.seen_ads
    now,                    \* the UTC clock, in days
    market,                 \* environment: the listings the gateway has online
    quota,                  \* environment: the calls of create_buy_order explored
    numbers,                \* environment: the numbers the front end is sent
    ranges,                 \* environment: the ranges the front end is sent
    main_pc,                \* main(): "boot" before engine.start(), then "polling"
    fe_pc,                  \* handle_text: "idle", or "range" between lines 444 and 445
    fe_pmax,                \* handle_text: its local pmax while fe_pc = "range"
    attempts,               \* log: the calls of create_buy_order
    notifs,                 \* log: the calls of app.create_task(notify_admin(..))
    skipped,                \* log: the ids passed over as infeasible (line 234)
    paid,                   \* log: what pressing "I Have Paid" led to
    last_cmd                \* log: the last command: "start" (first worker),
                            \* "restart" (a new worker after a dead one), "start_noop"
                            \* (the worker was alive), "stop", or a lone "prune"

vars == << price_min, price_max, min_buy, max_buy, auto_start, bot_running,
           history, disk, client, stop_event, thread, pc, loc, seen_ads, now,
           market, quota, numbers, ranges, main_pc, fe_pc, fe_pmax, attempts, notifs,
           skipped, paid, last_cmd >>

storeVars == << price_min, price_max, min_buy, max_buy, auto_start, bot_running, history >>
logVars == << attempts, notifs, skipped, paid, last_cmd >>
envVars == << client, market, quota, numbers, ranges >>
engineVars == << stop_event, thread, pc, loc >>
feVars == << main_pc, fe_pc, fe_pmax >>

\* ----------------------------------------------------------- pure helpers

\* prune_history: keep, in order, the items whose timestamp is not before
\* the cutoff; an item whose timestamp is missing or does not parse counts
\* as stamped now.
ItemTs(item, t) == IF item.timestamp.kind = "iso" THEN item.timestamp.t ELSE t
\* The cutoff itself counted as expired.
KeepItem_Strict(item, t) == ItemTs(item, t) > t - RETENTION_DAYS
KeepItem(item, t) == ItemTs(item, t) >= t - RETENTION_DAYS
prune_history(hist, t) == SelectSeq(hist, LAMBDA item : KeepItem(item, t))

\* The record is not inserted.
InsertRecord_Lost(hist, record, t) == prune_history(hist, t)
\* lines 246-247: the record goes to the head of history, then the prune
InsertRecord(hist, record, t) == prune_history(<< record >> \o hist, t)

\* The document save_state writes.
Snapshot(pmin, pmax, mb, xb, as, br, hist) ==
    [price_min |-> pmin, price_max |-> pmax, min_buy |-> mb, max_buy |-> xb,
     auto_start |-> as, bot_running |-> br, history |-> hist]

\* ad.get("adId") or ... or str(price) + "_" + str(sellerId)
AdId(ad) == IF ad.adId # "" THEN ad.adId ELSE ad.synth
\* float(ad.get("minLimit") or ad.get("min") or 0), in tenths
AdMin(ad) == IF ad.hasMin THEN ad.minLimit ELSE 0
\* float(ad.get("maxLimit") or ad.get("max") or 1e18), in tenths
AdMax(ad) == IF ad.hasMax THEN ad.maxLimit ELSE NO_AD_MAX
\* The band test without its upper end.
InBand_NoUpper(pmin, price, pmax) == pmin <= price
\* pmin <= price <= pmax
InBand(pmin, price, pmax) == pmin <= price /\ price <= pmax
\* amount_fiat after the upward clamp of lines 227-231
ClampAmount(mb, ad) == IF FloatOf(mb) < AdMin(ad) THEN IntOf(AdMin(ad)) ELSE mb
\* The feasibility test left out.
Infeasible_Never(amount, ad) == FALSE
\* amount_fiat > ad_max
Infeasible(amount, ad) == FloatOf(amount) > AdMax(ad)

\* create_buy_order: None without a client or without an ad id of its own
\* keys, else whatever the first entry point that does not raise returns
\* (None when all raise).
OrderResults(ad) ==
    IF ~client \/ ad.adId = "" THEN { NullResp } ELSE Responses

\* order_id of lines 250-252
OrderIdOf(resp) == IF resp.kind = "dict" THEN resp.orderId ELSE ""
\* The message and buttons of lines 253-265.
Notification(id, price, amount, resp) ==
    [title |-> "New Buy Order Created", ad_id |-> id, price |-> price,
     amount |-> amount,
     order_id |-> IF OrderIdOf(resp) # "" THEN OrderIdOf(resp) ELSE "N/A",
     markpaid |-> IF OrderIdOf(resp) # "" THEN OrderIdOf(resp) ELSE "none",
     viewad |-> id]

\* BotEngine.lock (line 111): who holds it.  No statement of the source
\* acquires it, so it is free in every state.
lock == "free"

\* Thread.is_alive(): started and not yet returned
IsAlive(t) == pc[t] # "new" /\ pc[t] # "dead"

NoLocals == [ads |-> <<>>, pmin |-> 0, pmax |-> 0, min_buy |-> 0, amount |-> 0,
             resp |-> NullResp, ts |-> 0]

\* -------------------------------------------------------------------- init

\* The state after create_app_and_engine(): load_state() found the defaults
\* or a saved document, BotEngine.__init__ has run.
InitWith(mk, q, nums, rngs, clients, hists, times) ==
    /\ price_min = DEFAULT_PRICE_MIN
    /\ price_max = DEFAULT_PRICE_MAX
    /\ min_buy = DEFAULT_MIN_BUY
    /\ max_buy = DEFAULT_MAX_BUY
    /\ auto_start \in BOOLEAN
    /\ bot_running \in BOOLEAN
    /\ history \in hists
    /\ disk = Snapshot(price_min, price_max, min_buy, max_buy, auto_start, bot_running, history)
    /\ client \in clients
    /\ market = mk
    /\ quota = q
    /\ numbers = nums
    /\ ranges = rngs
    /\ stop_event = FALSE
    /\ thread = 1
    /\ pc = [t \in Threads |-> "new"]
    /\ loc = [t \in Threads |-> NoLocals]
    /\ seen_ads = {}
    /\ now \in times
    /\ main_pc = "boot"
    /\ fe_pc = "idle"
    /\ fe_pmax = 0
    /\ attempts = <<>>
    /\ notifs = <<>>
    /\ skipped = {}
    /\ paid = {}
    /\ last_cmd = "none"

Init == InitWith({ A1, A2, N3, A4 }, MaxAttempts, { 5000 }, RangeInputs, BOOLEAN, { <<>> }, { 0 })

\* --------------------------------------------------------------- lifecycle

\* save_state(state) with the store as it is after the step
Save == disk' = Snapshot(price_min', price_max', min_buy', max_buy',
                         auto_start', bot_running', history')

\* start() without the is_alive() test.
NeedsNewThread_Always == TRUE
\* line 117: not self.thread.is_alive()
NeedsNewThread == ~IsAlive(thread)

\* A thread object that is not running: the one start() creates.
FreshThread == CHOOSE t \in Threads :
                   /\ ~IsAlive(t)
                   /\ \A u \in Threads : ~IsAlive(u) => t <= u

\* BotEngine.start
start ==
    /\ IF NeedsNewThread
       THEN /\ \E t \in Threads : ~IsAlive(t)
            /\ stop_event' = FALSE
            /\ thread' = FreshThread
            /\ pc' = [pc EXCEPT ![FreshThread] = "loop"]
            /\ loc' = [loc EXCEPT ![FreshThread] = NoLocals]
            /\ last_cmd' = IF pc[thread] = "dead" THEN "restart" ELSE "start"
       ELSE /\ UNCHANGED engineVars
            /\ last_cmd' = "start_noop"
    /\ bot_running' = TRUE
    /\ UNCHANGED << price_min, price_max, min_buy, max_buy, auto_start, history >>
    /\ Save

\* BotEngine.stop
stop ==
    /\ stop_event' = TRUE
    /\ bot_running' = FALSE
    /\ UNCHANGED << price_min, price_max, min_buy, max_buy, auto_start, history >>
    /\ Save
    /\ UNCHANGED << thread, pc, loc >>
    /\ last_cmd' = "stop"

\* main(): engine.start() when auto_start or bot_running was loaded, then
\* the front end starts polling.
Main ==
    /\ main_pc = "boot"
    /\ main_pc' = "polling"
    /\ IF auto_start \/ bot_running
       THEN start
       ELSE UNCHANGED << storeVars, disk, engineVars, last_cmd >>
    /\ UNCHANGED << envVars, seen_ads, now, fe_pc, fe_pmax, attempts, notifs, skipped, paid >>

\* The event loop runs one handler at a time.
FrontEndReady == main_pc = "polling" /\ fe_pc = "idle"

\* button_router, data == "start_bot"
StartBot ==
    /\ FrontEndReady
    /\ start
    /\ UNCHANGED << envVars, seen_ads, now, feVars, attempts, notifs, skipped, paid >>

\* button_router, data == "stop_bot"
StopBot ==
    /\ FrontEndReady
    /\ stop
    /\ UNCHANGED << envVars, seen_ads, now, feVars, attempts, notifs, skipped, paid >>

\* button_router, data == "toggle_autostart"
ToggleAutoStart ==
    /\ FrontEndReady
    /\ auto_start' = ~auto_start
    /\ UNCHANGED << price_min, price_max, min_buy, max_buy, bot_running, history >>
    /\ Save
    /\ UNCHANGED << envVars, engineVars, seen_ads, now, feVars, logVars >>

\* handle_text, a range "min-max": lines 438-444.  A range with min > max is
\* answered and changes nothing; otherwise min is written first.
SetRangeMin ==
    /\ FrontEndReady
    /\ \E r \in ranges :
          IF r[1] <= r[2]
          THEN /\ price_min' = r[1]
               /\ fe_pc' = "range"
               /\ fe_pmax' = r[2]
          ELSE UNCHANGED << price_min, fe_pc, fe_pmax >>
    /\ UNCHANGED << price_max, min_buy, max_buy, auto_start, bot_running, history,
                    disk, envVars, engineVars, seen_ads, now, main_pc, logVars >>

\* handle_text, lines 445-446: max is written, the state saved.
SetRangeMax ==
    /\ fe_pc = "range"
    /\ price_max' = fe_pmax
    /\ fe_pc' = "idle"
    /\ fe_pmax' = 0
    /\ UNCHANGED << price_min, min_buy, max_buy, auto_start, bot_running, history >>
    /\ Save
    /\ UNCHANGED << envVars, engineVars, seen_ads, now, main_pc, logVars >>

\* Every number is taken as the new min_buy.
SetNumber_AlwaysMin ==
    /\ FrontEndReady
    /\ \E n \in numbers : min_buy' = n /\ UNCHANGED max_buy
    /\ UNCHANGED << price_min, price_max, auto_start, bot_running, history >>
    /\ Save
    /\ UNCHANGED << envVars, engineVars, seen_ads, now, feVars, logVars >>
\* handle_text, a single number: lines 457-468.
SetNumber ==
    /\ FrontEndReady
    /\ \E n \in numbers :
          IF n <= max_buy
          THEN min_buy' = n /\ UNCHANGED max_buy
          ELSE max_buy' = n /\ UNCHANGED min_buy
    /\ UNCHANGED << price_min, price_max, auto_start, bot_running, history >>
    /\ Save
    /\ UNCHANGED << envVars, engineVars, seen_ads, now, feVars, logVars >>

\* The clock.
Tick ==
    /\ now + TickDays <= MaxTime
    /\ now' = now + TickDays
    /\ UNCHANGED << storeVars, disk, envVars, engineVars, seen_ads, feVars, logVars >>

\* ------------------------------------------------------------- worker_loop

Goto(t, label) == pc' = [pc EXCEPT ![t] = label]
\* The rest of the batch is dropped.
NextListing_EndBatch(t) ==
    /\ loc' = [loc EXCEPT ![t] = NoLocals]
    /\ Goto(t, "ad")
\* continue: on to the next listing of the batch
NextListing(t) ==
    /\ loc' = [loc EXCEPT ![t] = [NoLocals EXCEPT !.ads = Tail(loc[t].ads)]]
    /\ Goto(t, "ad")

\* line 201: while not self._stop_event.is_set()
WhileTest(t) ==
    /\ pc[t] = "loop"
    /\ IF stop_event THEN Goto(t, "dead") ELSE Goto(t, "running")
    /\ UNCHANGED << storeVars, disk, envVars, stop_event, thread, loc, seen_ads,
                    now, feVars, logVars >>

\* The cycle polls whatever bot_running says.
CheckRunning_Always(t) ==
    /\ pc[t] = "running"
    /\ Goto(t, "fetch")
    /\ UNCHANGED << storeVars, disk, envVars, stop_event, thread, loc, seen_ads,
                    now, feVars, logVars >>
\* lines 203-205: idle while bot_running is false
CheckRunning(t) ==
    /\ pc[t] = "running"
    /\ IF bot_running THEN Goto(t, "fetch") ELSE Goto(t, "loop")
    /\ UNCHANGED << storeVars, disk, envVars, stop_event, thread, loc, seen_ads,
                    now, feVars, logVars >>

\* get_online_ads: [] without a client or when every entry point fails,
\* else the list the gateway answers with.
OnlineAds == IF client
             THEN SeqsUpTo(market, MaxBatch)
             ELSE { <<>> }

\* lines 207-212: prune, fetch; an empty answer sleeps and starts over
Fetch(t) ==
    /\ pc[t] = "fetch"
    /\ history' = prune_history(history, now)
    /\ \E ads \in OnlineAds :
          IF ads = <<>>
          THEN Goto(t, "loop") /\ UNCHANGED loc
          ELSE Goto(t, "ad") /\ loc' = [loc EXCEPT ![t] = [NoLocals EXCEPT !.ads = ads]]
    /\ UNCHANGED << price_min, price_max, min_buy, max_buy, auto_start, bot_running,
                    disk, envVars, stop_event, thread, seen_ads, now, feVars, logVars >>

\* The seen-set test left out.
PassedOver_NoSeen(ad) == ad.priceKind # "num"
\* lines 216-222: the listing is passed over before the band is read: no
\* price, a price float() rejects (line 280), or an id in seen_ads
PassedOver(ad) ==
    \/ ad.priceKind # "num"
    \/ AdId(ad) \in seen_ads

\* A listing whose price does not parse ends the batch.
TakeAd_FaultEndsBatch(t) ==
    /\ pc[t] = "ad"
    /\ IF loc[t].ads = <<>> \/ Head(loc[t].ads).priceKind = "bad"
       THEN Goto(t, "loop") /\ loc' = [loc EXCEPT ![t] = NoLocals]
       ELSE IF PassedOver(Head(loc[t].ads))
            THEN NextListing(t)
            ELSE /\ loc' = [loc EXCEPT ![t].pmin = price_min]
                 /\ Goto(t, "band")
    /\ UNCHANGED << storeVars, disk, envVars, stop_event, thread, seen_ads, now,
                    feVars, logVars >>
\* lines 214-224: the next listing; the batch done, sleep (line 282)
TakeAd(t) ==
    /\ pc[t] = "ad"
    /\ IF loc[t].ads = <<>>
       THEN Goto(t, "loop") /\ loc' = [loc EXCEPT ![t] = NoLocals]
       ELSE IF PassedOver(Head(loc[t].ads))
            THEN NextListing(t)
            ELSE /\ loc' = [loc EXCEPT ![t].pmin = price_min]
                 /\ Goto(t, "band")
    /\ UNCHANGED << storeVars, disk, envVars, stop_event, thread, seen_ads, now,
                    feVars, logVars >>

\* lines 225-234: the band test, the amount, the feasibility test
Band(t) ==
    /\ pc[t] = "band"
    /\ LET ad == Head(loc[t].ads)
           amount == ClampAmount(min_buy, ad)
       IN  IF InBand(loc[t].pmin, ad.price, price_max)
           THEN IF Infeasible(amount, ad)
                THEN /\ NextListing(t)
                     /\ skipped' = skipped \cup { AdId(ad) }
                ELSE /\ loc' = [loc EXCEPT ![t].pmax = price_max,
                                           ![t].min_buy = min_buy,
                                           ![t].amount = amount]
                     /\ Goto(t, "order")
                     /\ UNCHANGED skipped
           ELSE NextListing(t) /\ UNCHANGED skipped
    /\ UNCHANGED << storeVars, disk, envVars, stop_event, thread, seen_ads, now,
                    feVars, attempts, notifs, paid, last_cmd >>

\* lines 236-248: create_buy_order, the record at the head of history,
\* prune, save.  (The exploration ends at the quota of calls.)
Order(t) ==
    /\ pc[t] = "order"
    /\ Len(attempts) < quota
    /\ LET ad == Head(loc[t].ads)
       IN  \E resp \in OrderResults(ad) :
              /\ attempts' = Append(attempts,
                    [ad_id |-> AdId(ad), amount |-> loc[t].amount])
              /\ history' = InsertRecord(history,
                    [order_response |-> resp,
                     ad |-> [id |-> AdId(ad), price |-> ad.price],
                     amount |-> loc[t].amount,
                     timestamp |-> IsoTs(now)], now)
              /\ loc' = [loc EXCEPT ![t].resp = resp, ![t].ts = now]
    /\ Goto(t, "notify")
    /\ UNCHANGED << price_min, price_max, min_buy, max_buy, auto_start, bot_running >>
    /\ Save
    /\ UNCHANGED << envVars, stop_event, thread, seen_ads, now, feVars, notifs,
                    skipped, paid, last_cmd >>

\* lines 250-270: the notification is handed to the event loop (a failure
\* to schedule it is only logged)
Notify(t) ==
    /\ pc[t] = "notify"
    /\ LET ad == Head(loc[t].ads)
       IN  notifs' = Append(notifs,
              [msg |-> Notification(AdId(ad), ad.price, loc[t].amount, loc[t].resp),
               resp |-> loc[t].resp, ts |-> loc[t].ts])
    /\ Goto(t, "seen")
    /\ UNCHANGED << storeVars, disk, envVars, stop_event, thread, loc, seen_ads, now,
                    feVars, attempts, skipped, paid, last_cmd >>

\* The id is not added.
AfterAdd_Forget(id) == { seen_ads }
\* Nothing is removed over the cap.
AfterAdd_NoEvict(id) == { seen_ads \cup { id } }
\* lines 272-278: seen_ads after the add; over the cap, set.pop() removes an
\* arbitrary member
AfterAdd(id) ==
    LET added == seen_ads \cup { id }
    IN  IF Cardinality(added) > SeenCap
        THEN { added \ { x } : x \in added }
        ELSE { added }

MarkSeen(t) ==
    /\ pc[t] = "seen"
    /\ seen_ads' \in AfterAdd(AdId(Head(loc[t].ads)))
    /\ NextListing(t)
    /\ UNCHANGED << storeVars, disk, envVars, stop_event, thread, now, feVars, logVars >>

Worker(t) ==
    \/ WhileTest(t)
    \/ CheckRunning(t)
    \/ Fetch(t)
    \/ TakeAd(t)
    \/ Band(t)
    \/ Order(t)
    \/ Notify(t)
    \/ MarkSeen(t)

Next ==
    \/ Main
    \/ StartBot
    \/ StopBot
    \/ SetRangeMin
    \/ SetRangeMax
    \/ SetNumber
    \/ Tick
    \/ \E t \in Threads : Worker(t)

Spec == Init /\ [][Next]_vars

\* ------------------------------------------------ the other specifications

\* Dedup and the seen-set cap: listings that are all in band and feasible,
\* enough order calls to go over the cap and come back, start and stop.
InitDedup == InitWith({ A1, A2, A8 }, SeenCap + 2, {}, {}, { TRUE }, { <<>> }, { 0 })

NextDedup ==
    \/ Main
    \/ StartBot
    \/ StopBot
    \/ \E t \in Threads : Worker(t)

SpecDedup == InitDedup /\ [][NextDedup]_vars

\* prune_history on its own: a loaded history with every kind of timestamp.
HistoryItem(id, ts) ==
    [order_response |-> NullResp, ad |-> [id |-> id, price |-> DEFAULT_PRICE_MIN],
     amount |-> DEFAULT_MIN_BUY, timestamp |-> ts]

PruneItems ==
    { HistoryItem("A1", IsoTs(0)), HistoryItem("A2", IsoTs(1)),
      HistoryItem("A4", IsoTs(2)), HistoryItem("A5", IsoTs(RETENTION_DAYS + 2)),
      HistoryItem("A6", [kind |-> "malformed", t |-> 0]),
      HistoryItem("A7", [kind |-> "missing", t |-> 0]) }

InitPrune == InitWith({}, 0, {}, {}, { FALSE }, SeqsUpTo(PruneItems, MaxHist),
                      RETENTION_DAYS .. RETENTION_DAYS + 2)

\* prune_history(state), as line 207 calls it (no save follows)
Prune ==
    /\ history' = prune_history(history, now)
    /\ last_cmd' = "prune"
    /\ UNCHANGED << price_min, price_max, min_buy, max_buy, auto_start, bot_running,
                    disk, envVars, engineVars, seen_ads, now, feVars, attempts,
                    notifs, skipped, paid >>

NextPrune == Prune

SpecPrune == InitPrune /\ [][NextPrune]_vars

\* Faults: a gateway that may be unconfigured, listings with a missing and
\* with an unparseable price next to a good one, order calls that fail, and
\* exceptions that escape a cycle.  The worker threads are scheduled fairly.
InitFault == InitWith({ A1, A6, A7 }, MaxAttempts, {}, {}, BOOLEAN, { <<>> }, { 0 })

\* The exception ends the thread.
OuterFault_Fatal(t) ==
    /\ pc[t] = "fetch"
    /\ Goto(t, "dead")
    /\ UNCHANGED << storeVars, disk, envVars, stop_event, thread, loc, seen_ads,
                    now, feVars, logVars >>
\* lines 283-285: an exception raised in lines 203-212 is logged, the loop
\* sleeps and goes back to its test
OuterFault(t) ==
    /\ pc[t] = "fetch"
    /\ Goto(t, "loop")
    /\ UNCHANGED << storeVars, disk, envVars, stop_event, thread, loc, seen_ads,
                    now, feVars, logVars >>

NextFault ==
    \/ Main
    \/ StartBot
    \/ StopBot
    \/ \E t \in Threads : Worker(t)
    \/ \E t \in Threads : OuterFault(t)

\* A started thread runs: the scheduler does not starve it.
FairWorkers == \A t \in Threads : WF_vars(Worker(t) \/ OuterFault(t))

SpecFault == InitFault /\ [][NextFault]_vars /\ FairWorkers

\* The band replaced under the worker: two bands with a gap between them and
\* a listing priced in the gap, outside the default band too.
GapRanges == { << 1400, 1455 >>, << 1460, 1500 >> }

InitBand == InitWith({ A9 }, MaxAttempts, {}, GapRanges, { TRUE }, { <<>> }, { 0 })

NextBand ==
    \/ Main
    \/ StartBot
    \/ SetRangeMin
    \/ SetRangeMax
    \/ \E t \in Threads : Worker(t)

SpecBand == InitBand /\ [][NextBand]_vars

\* The state file: save_state, load_state and a restart of the process.

\* The top-level keys of the state document (but market and admin_id, which
\* nothing writes).
TopKeys == { "price_range", "min_buy", "max_buy", "auto_start", "bot_running",
             "history" }

\* DEFAULT_STATE
DefaultDoc ==
    [price_range |-> [min |-> DEFAULT_PRICE_MIN, max |-> DEFAULT_PRICE_MAX],
     min_buy |-> DEFAULT_MIN_BUY, max_buy |-> DEFAULT_MAX_BUY,
     auto_start |-> FALSE, bot_running |-> FALSE, history |-> <<>>]

\* The state dict a snapshot was taken of.
StateDoc(snap) ==
    [price_range |-> [min |-> snap.price_min, max |-> snap.price_max],
     min_buy |-> snap.min_buy, max_buy |-> snap.max_buy,
     auto_start |-> snap.auto_start, bot_running |-> snap.bot_running,
     history |-> snap.history]

\* An order result that is an object of the SDK, not a dict.
ObjectResp == [kind |-> "object", orderId |-> ""]

\* json.dump(..., default=str) then json.load of one value: numbers, booleans,
\* strings, lists and dicts come back as they were; None comes back as None;
\* an object json cannot serialise comes back as the string str() made of it.
JsonOfResp(r) == IF r.kind = "object" THEN [kind |-> "str", orderId |-> ""] ELSE r
JsonValue(k, v) ==
    IF k = "history"
    THEN [i \in DOMAIN v |-> [v[i] EXCEPT !.order_response = JsonOfResp(@)]]
    ELSE v

\* What json.load reads from the file save_state wrote of snap, the keys of
\* K being absent from it (a document of an older version, or edited).
FileOf(snap, K) == [k \in TopKeys \ K |-> JsonValue(k, StateDoc(snap)[k])]

\* The file is ignored.
load_state_Defaults(st) == DefaultDoc
\* load_state, lines 60-65: the keys the document lacks come from DEFAULT_STATE
load_state(st) ==
    [k \in TopKeys |-> IF k \in DOMAIN st THEN st[k] ELSE DefaultDoc[k]]

\* The process is started again: create_app_and_engine loads the state file
\* and builds a new engine.
Reload(K) ==
    /\ main_pc = "polling"
    /\ LET st == load_state(FileOf(disk, K))
       IN  /\ price_min' = st["price_range"].min
           /\ price_max' = st["price_range"].max
           /\ min_buy' = st["min_buy"]
           /\ max_buy' = st["max_buy"]
           /\ auto_start' = st["auto_start"]
           /\ bot_running' = st["bot_running"]
           /\ history' = st["history"]
    /\ stop_event' = FALSE
    /\ thread' = 1
    /\ pc' = [t \in Threads |-> "new"]
    /\ loc' = [t \in Threads |-> NoLocals]
    /\ seen_ads' = {}
    /\ main_pc' = "boot"
    /\ fe_pc' = "idle"
    /\ fe_pmax' = 0
    /\ last_cmd' = "load"
    /\ UNCHANGED << disk, envVars, now, attempts, notifs, skipped, paid >>

StoreItem(id, resp) ==
    [HistoryItem(id, IsoTs(0)) EXCEPT !.order_response = resp]

StoreItems == { StoreItem("A2", [kind |-> "dict", orderId |-> "O1"]),
                StoreItem("A4", ObjectResp) }

\* The sets of keys a state file is tried without: none, each one alone, two
\* together, all of them.
MissingKeys ==
    { {}, TopKeys, { "price_range", "history" } } \cup { { k } : k \in TopKeys }

InitStore == InitWith({}, 0, { 5000, 1500000, 2000000 }, RangeInputs, { FALSE },
                      SeqsUpTo(StoreItems, MaxHist), { 0 })

NextStore ==
    \/ Main
    \/ ToggleAutoStart
    \/ SetRangeMin
    \/ SetRangeMax
    \/ SetNumber
    \/ \E K \in MissingKeys : Reload(K)

SpecStore == InitStore /\ [][NextStore]_vars

\* The texts the front end is sent, from the defaults: numbers below and
\* above maxBuy, ranges with min <= max and with min > max.
InitInput == InitWith({}, 0, { 5000, 1500000, 2000000 }, RangeInputs, { FALSE },
                      { <<>> }, { 0 })

NextInput ==
    \/ Main
    \/ ToggleAutoStart
    \/ SetRangeMin
    \/ SetRangeMax
    \/ SetNumber

SpecInput == InitInput /\ [][NextInput]_vars

\* The buy bounds against the listings' limits: a listing whose minLimit is
\* above the default maxBuy next to one whose limits hold minBuy.
InitAmount == InitWith({ A1, A10 }, MaxAttempts, { 5000 }, {}, { TRUE }, { <<>> }, { 0 })

NextAmount ==
    \/ Main
    \/ StartBot
    \/ SetNumber
    \/ \E t \in Threads : Worker(t)

SpecAmount == InitAmount /\ [][NextAmount]_vars

\* The "I Have Paid" button of the notifications.

\* button_router, data "markpaid:<order_id>", lines 378-409: the button of a
\* notification is pressed.  Without a client nothing is called; else the
\* mark-paid entry points are tried with the button's order id: the client
\* has none of them, or all raise, or one accepts.
MarkPaid ==
    /\ FrontEndReady
    /\ \E i \in DOMAIN notifs :
          LET order_id == notifs[i].msg.markpaid
          IN  IF ~client
              THEN paid' = paid \cup { [order_id |-> order_id, called |-> FALSE,
                                        reply |-> "not configured"] }
              ELSE \E outcome \in { "no method", "raised", "accepted" } :
                      paid' = paid \cup
                          { [order_id |-> order_id,
                             called |-> outcome # "no method",
                             reply |-> IF outcome = "accepted"
                                       THEN "marked as paid" ELSE "failed"] }
    /\ UNCHANGED << storeVars, disk, envVars, engineVars, seen_ads, now, feVars,
                    attempts, notifs, skipped, last_cmd >>

InitPaid == InitWith({ A1, N3 }, MaxAttempts, {}, {}, { TRUE }, { <<>> }, { 0 })

NextPaid ==
    \/ Main
    \/ StartBot
    \/ MarkPaid
    \/ \E t \in Threads : Worker(t)

SpecPaid == InitPaid /\ [][NextPaid]_vars

\* ------------------------------------------------------------------ claims

Range(seq) == { seq[i] : i \in DOMAIN seq }
Max(a, b) == IF a >= b THEN a ELSE b
\* The listing thread t is working on.
Cur(t) == Head(loc[t].ads)
\* Thread t is past the tests and acting on its listing.
Acting(t) == pc[t] \in { "order", "notify", "seen" }
\* Thread t takes a step.
Moves(t) == pc'[t] # pc[t]
AttemptedIds == { attempts[i].ad_id : i \in DOMAIN attempts }
\* This step leaves no trace of the listing: no order call, no record, no
\* notification, no seen-set entry.
NoAction ==
    /\ attempts' = attempts
    /\ history' = history
    /\ notifs' = notifs
    /\ seen_ads' = seen_ads

\* C1, state part: a listing is acted on only with its price inside the band
\* the worker read, min and max included.
C1_ActsInBandOnly ==
    \A t \in Threads :
        Acting(t) => loc[t].pmin <= Cur(t).price /\ Cur(t).price <= loc[t].pmax

\* C1, step part: the band test of a listing priced below the min read or
\* above the max read moves on to the next listing with no order call, no
\* record, no notification and no seen-set entry; a price equal to min or max
\* is not turned away by the band test; and order calls, new records,
\* notifications and seen-set entries come only from a worker acting on a
\* listing.
C1_Step ==
    /\ \A t \in Threads :
          (pc[t] = "band" /\ Moves(t)) =>
              /\ (Cur(t).price < loc[t].pmin \/ Cur(t).price > price_max) =>
                    /\ NoAction
                    /\ pc'[t] = "ad"
                    /\ loc'[t].ads = Tail(loc[t].ads)
                    /\ skipped' = skipped
              /\ (/\ loc[t].pmin <= Cur(t).price /\ Cur(t).price <= price_max
                  /\ (Cur(t).price = loc[t].pmin \/ Cur(t).price = price_max)) =>
                    (pc'[t] = "order" \/ AdId(Cur(t)) \in skipped')
    /\ (\/ attempts' # attempts
        \/ notifs' # notifs
        \/ seen_ads' # seen_ads
        \/ ~(Range(history') \subseteq Range(history))) =>
          \E t \in Threads : Acting(t) /\ Moves(t)

\* C1: in every polling cycle a listing priced strictly below the band's min
\* or strictly above its max gets no order call, no history record, no
\* notification and no seen-set entry; min and max themselves are in the band.
C1_PriceBandFilter == []C1_ActsInBandOnly /\ [][C1_Step]_vars

\* C1 witness: the worker stands at the band test with a listing priced above
\* the band, and a listing priced exactly at the band's min is being ordered.
C1_Witness_AtBandTest ==
    \E t \in Threads :
        /\ pc[t] = "band"
        /\ Cur(t).price > price_max
        /\ Len(loc[t].ads) = 2
        /\ loc[t].ads[2].price = price_min

\* C3: the amount of every order call is max(minBuy, minLimit), never below
\* the listing's minLimit nor above its maxLimit (limits in tenths).
C3_AmountIsMaxOfMinBuyAndMinLimit ==
    \A t \in Threads :
        Acting(t) =>
            /\ FloatOf(loc[t].amount) = Max(FloatOf(loc[t].min_buy), AdMin(Cur(t)))
            /\ FloatOf(loc[t].amount) >= AdMin(Cur(t))
            /\ FloatOf(loc[t].amount) <= AdMax(Cur(t))

\* C4, step part: an in-band, unseen listing whose max(minBuy, minLimit) is
\* above its maxLimit is passed over with no order call, no record, no
\* notification, and its id stays out of the seen set; one whose
\* max(minBuy, minLimit) fits is sent to order placement.
C4_Step ==
    \A t \in Threads :
        (/\ pc[t] = "band" /\ Moves(t)
         /\ loc[t].pmin <= Cur(t).price /\ Cur(t).price <= price_max) =>
            IF Max(FloatOf(min_buy), AdMin(Cur(t))) > AdMax(Cur(t))
            THEN /\ NoAction
                 /\ pc'[t] = "ad"
                 /\ AdId(Cur(t)) \notin seen_ads'
            ELSE pc'[t] = "order"

\* C4, state part: a listing passed over as infeasible is in the seen set
\* only if it was later acted upon.
C4_SkippedNotSeen ==
    \A id \in skipped : id \in seen_ads => id \in AttemptedIds

\* C4: an infeasible listing is skipped without being marked seen, is looked
\* at afresh whenever it comes back, and is acted upon once it is feasible.
C4_InfeasibleSkippedUnseen == []C4_SkippedNotSeen /\ [][C4_Step]_vars

\* C4 witness: a listing that was passed over as infeasible has since been
\* ordered.
C4_Witness_SkippedThenOrdered == \E id \in skipped : id \in AttemptedIds

\* C6: when order placement yields null, the attempt is still recorded with a
\* null result and still notified, and the notification differs from the one
\* any successful placement of the same order would have sent.
C6_NullResultNotifiedAsFailure ==
    \A t \in Threads :
        (pc[t] = "seen" /\ loc[t].resp = NullResp) =>
            /\ history # <<>>
            /\ history[1].ad.id = AdId(Cur(t))
            /\ history[1].order_response = NullResp
            /\ notifs # <<>>
            /\ notifs[Len(notifs)].msg.ad_id = AdId(Cur(t))
            /\ \A r \in Responses \ { NullResp } :
                  notifs[Len(notifs)].msg #
                      Notification(AdId(Cur(t)), Cur(t).price, loc[t].amount, r)

\* The record of the attempt a notification belongs to is in hist.
HasRecord(hist, n) ==
    \E j \in DOMAIN hist :
        /\ hist[j].ad.id = n.msg.ad_id
        /\ hist[j].timestamp = IsoTs(n.ts)

C8_RecordWhileRetained ==
    \A i \in DOMAIN notifs :
        notifs[i].ts >= now - RETENTION_DAYS => HasRecord(history, notifs[i])

\* C8 amended, step part: when the notification is handed off, the record of
\* the attempt is at the head of history and in the saved state.
C8_Step ==
    \A t \in Threads :
        (pc[t] = "notify" /\ Moves(t)) =>
            /\ history # <<>>
            /\ history[1].ad.id = AdId(Cur(t))
            /\ history[1].amount = loc[t].amount
            /\ history[1].order_response = loc[t].resp
            /\ disk.history = history
            /\ Len(notifs') = Len(notifs) + 1
            /\ HasRecord(history', notifs'[Len(notifs')])

C9_AtMostOneWorker == Cardinality({ t \in Threads : IsAlive(t) }) <= 1

\* C9, step part: start() on an engine whose worker is alive changes nothing
\* but bot_running (set) and the saved state.
C9_Step ==
    (start /\ IsAlive(thread)) =>
        /\ UNCHANGED << stop_event, thread, pc, loc, seen_ads, history,
                        price_min, price_max, min_buy, max_buy, auto_start >>
        /\ bot_running'

\* C9: start() is idempotent, and there is never more than one worker loop.
C9_StartIdempotent == []C9_AtMostOneWorker /\ [][C9_Step]_vars

\* C9 witness: start() was called on a running engine, whose one worker is in
\* the middle of a cycle.
C9_Witness_StartWhileRunning ==
    /\ last_cmd = "start_noop"
    /\ bot_running
    /\ \E t \in Threads : pc[t] = "band"

\* C10: whenever the last lifecycle command was start(), the engine is
\* running: bot_running is set and a worker loop is alive with its stop
\* signal clear.
C10_RunningAfterStart ==
    last_cmd \in { "start", "restart", "start_noop" } =>
        /\ bot_running
        /\ IsAlive(thread)
        /\ ~stop_event

\* No id occurs twice in the order calls, none twice in history.
NoRepeat ==
    /\ \A i, j \in DOMAIN attempts : i # j => attempts[i].ad_id # attempts[j].ad_id
    /\ \A i, j \in DOMAIN history : i # j => history[i].ad.id # history[j].ad.id

\* C2 as stated: whatever the number of listings acted upon, no listing
\* identifier is the target of two order calls or has two history records.
C2_NeverOrderedTwice == NoRepeat

\* C2 amended, state part: no identifier is ordered or recorded twice as long
\* as the distinct identifiers acted upon fit the seen-set cap.
C2_NoRepeatWithinCap == Cardinality(AttemptedIds) <= SeenCap => NoRepeat

\* C2 amended, step part: a listing whose identifier is in the seen set is
\* passed over: no order call, no record, no notification.
C2_Step ==
    \A t \in Threads :
        (/\ pc[t] = "ad" /\ Moves(t) /\ loc[t].ads # <<>>
         /\ AdId(Cur(t)) \in seen_ads) =>
            /\ NoAction
            /\ pc'[t] = "ad"
            /\ loc'[t].ads = Tail(loc[t].ads)

\* C2 amended: a listing in the seen set is never acted on again, in later
\* cycles, later in the batch or across stop()/start(); so no identifier is
\* ordered twice while at most 1000 distinct identifiers have been acted upon.
C2_DedupWithinCap == []C2_NoRepeatWithinCap /\ [][C2_Step]_vars

\* C2 witness: after a stop() and a new start(), the worker is handed a
\* listing it has ordered once and holds in the seen set.
C2_Witness_Represented ==
    \E t \in Threads :
        /\ pc[t] = "ad"
        /\ loc[t].ads # <<>>
        /\ AdId(Cur(t)) \in seen_ads
        /\ attempts = << [ad_id |-> AdId(Cur(t)), amount |-> DEFAULT_MIN_BUY] >>
        /\ last_cmd = "restart"

\* C5, the steps of acting on a listing, but for the seen set: one order call
\* with the amount, the record of it at the head of history above the
\* records history had, then one notification.
C5_ActSteps ==
    /\ \A t \in Threads :
          /\ (pc[t] = "order" /\ Moves(t)) =>
                /\ attempts' = Append(attempts, [ad_id |-> AdId(Cur(t)),
                                                 amount |-> loc[t].amount])
                /\ history' # <<>>
                /\ history'[1].ad.id = AdId(Cur(t))
                /\ history'[1].amount = loc[t].amount
                /\ history'[1].timestamp = IsoTs(now)
                /\ Range(Tail(history')) \subseteq Range(history)
                /\ notifs' = notifs
                /\ seen_ads' = seen_ads
                /\ pc'[t] = "notify"
          /\ (pc[t] = "notify" /\ Moves(t)) =>
                /\ Len(notifs') = Len(notifs) + 1
                /\ notifs'[Len(notifs')].msg.ad_id = AdId(Cur(t))
                /\ notifs'[Len(notifs')].msg.amount = loc[t].amount
                /\ attempts' = attempts
                /\ history' = history
                /\ seen_ads' = seen_ads
                /\ pc'[t] = "seen"
          /\ (pc[t] = "seen" /\ Moves(t)) =>
                /\ attempts' = attempts
                /\ history' = history
                /\ notifs' = notifs
                /\ pc'[t] = "ad"
                /\ loc'[t].ads = Tail(loc[t].ads)
    /\ (attempts' # attempts \/ notifs' # notifs \/ seen_ads' # seen_ads) =>
          \E t \in Threads : Acting(t) /\ Moves(t)

\* The processing of thread t's listing ends with its id in the seen set.
C5_SeenAtEnd(t) == AdId(Cur(t)) \in seen_ads'

RECURSIVE RefFilter(_, _)
RefFilter(hist, t) ==
    IF hist = <<>> THEN <<>>
    ELSE LET item == Head(hist)
             rest == RefFilter(Tail(hist), t)
         IN  IF item.timestamp.kind = "iso" /\ item.timestamp.t < t - RETENTION_DAYS
             THEN rest
             ELSE << item >> \o rest

\* C7: after any number of prunes at one instant, history is the reference
\* filter of the history that was loaded: no record older than 10 days, every
\* record in the window or with a malformed or missing timestamp, in order.
C7_PruneIsReferenceFilter ==
    last_cmd = "prune" =>
        /\ history = RefFilter(disk.history, now)
        /\ \A i \in DOMAIN history :
              history[i].timestamp.kind = "iso" =>
                  history[i].timestamp.t >= now - RETENTION_DAYS
        /\ prune_history(history, now) = history

\* C7 witness: a prune has dropped an expired record and kept a record at
\* the cutoff and a record with a malformed timestamp.
C7_Witness_Pruned ==
    /\ last_cmd = "prune"
    /\ Len(history) < Len(disk.history)
    /\ \E i \in DOMAIN history : history[i].timestamp.kind = "malformed"
    /\ \E i \in DOMAIN history : history[i].timestamp = IsoTs(now - RETENTION_DAYS)

\* The sum of f over the threads of S.
RECURSIVE SumOver(_, _)
SumOver(S, f) ==
    IF S = {} THEN 0
    ELSE LET t == CHOOSE x \in S : TRUE
         IN  f[t] + SumOver(S \ { t }, f)

\* The listings thread t's cycle in progress can still order: the batch it is
\* about to fetch, or what is left of the batch it holds.
Remaining(p, l) ==
    [t \in Threads |->
        CASE p[t] = "fetch" -> MaxBatch
          [] p[t] \in { "ad", "band", "order" } -> Len(l[t].ads)
          [] p[t] \in { "notify", "seen" } -> Len(l[t].ads) - 1
          [] OTHER -> 0]

\* C11 as stated, first sentence: no listing fetch is started while
\* bot_running is false.
C11_NoFetchWhileNotRunning ==
    [][\A t \in Threads : (pc[t] = "fetch" /\ Moves(t)) => bot_running]_vars

\* C11 amended, state part: after stop() the run flag is false and the stop
\* signal set.
C11_Stopped == last_cmd = "stop" => ~bot_running /\ stop_event

\* C11 amended, step part: a cycle goes on to fetch only from a top-of-cycle
\* test that found bot_running true, and one that finds it false goes back to
\* the loop test with nothing done; after stop(), no cycle begins, a worker at
\* the loop test exits, and each order call uses up one of the listings left
\* to the cycle in progress.
C11_Step ==
    /\ \A t \in Threads :
          /\ (pc'[t] = "fetch" /\ pc[t] # "fetch") => (pc[t] = "running" /\ bot_running)
          /\ (pc[t] = "running" /\ Moves(t) /\ ~bot_running) =>
                (pc'[t] = "loop" /\ NoAction)
    /\ (last_cmd = "stop" /\ last_cmd' = "stop") =>
          /\ \A t \in Threads :
                /\ pc'[t] = "fetch" => pc[t] = "fetch"
                /\ (pc[t] = "loop" /\ Moves(t)) => pc'[t] = "dead"
          /\ (Len(attempts') - Len(attempts)) + SumOver(Threads, Remaining(pc', loc'))
                <= SumOver(Threads, Remaining(pc, loc))

\* C11 amended: a cycle polls only if its own test at the top found the engine
\* running (a fetch can still start after stop() has cleared the flag, in the
\* cycle that passed the test before); after stop() no new cycle begins and
\* the order calls are bounded by the listings of the one batch in progress.
C11_StopObservedAtTop == []C11_Stopped /\ [][C11_Step]_vars

\* C11 witness: stop() has returned while a cycle was in progress, and that
\* cycle is about to place an order.
C11_Witness_OrderAfterStop ==
    /\ last_cmd = "stop"
    /\ attempts = <<>>
    /\ \E t \in Threads : pc[t] = "order" /\ Len(loc[t].ads) = 2

\* C12, state part: the front end is never in the middle of writing the price
\* band (min written, max not yet) while a worker is in the middle of reading
\* it (min read, max not yet).
C12_WriterExcludesReader ==
    ~(fe_pc = "range" /\ \E t \in Threads : pc[t] = "band")

\* C12, step part: every step that changes the state store is taken with the
\* engine's lock held.
C12_WritesUnderLock == storeVars' # storeVars => lock # "free"

\* C12: every mutation of the state store is made holding the engine's one
\* lock, so a writer and the worker's mid-cycle read are never inside their
\* critical sections together.
C12_StoreMutatedUnderLock == []C12_WriterExcludesReader /\ [][C12_WritesUnderLock]_vars

\* Thread t is inside a cycle, past the tests at its top.
MidCycle(t) == pc[t] \in { "fetch", "ad", "band", "order", "notify", "seen" }

\* C13, step part: a worker loop ends only at its loop test and only with the
\* stop signal set, and the stop signal is set only by stop().
C13_Step ==
    /\ \A t \in Threads :
          (pc'[t] = "dead" /\ pc[t] # "dead") => (pc[t] = "loop" /\ stop_event)
    /\ (stop_event' /\ ~stop_event) => last_cmd' = "stop"

\* C13: the worker loop ends only after an explicit stop request; from every
\* point inside a cycle (a fetch that comes back empty, fails or has no
\* gateway, a listing that cannot be processed, an order call that failed, a
\* notification handed off, an exception escaping the cycle) the loop comes to
\* the top of another cycle unless stop() is called.
C13_OnlyStopEndsLoop ==
    /\ [][C13_Step]_vars
    /\ \A t \in Threads : MidCycle(t) ~> (pc[t] = "running" \/ stop_event)

\* C13 witness: with no stop requested, an order call has failed and been
\* recorded, and the worker is at a listing whose price does not parse.
C13_Witness_FaultsSurvived ==
    /\ ~stop_event
    /\ last_cmd # "stop"
    /\ history # <<>>
    /\ history[1].order_response = NullResp
    /\ \E t \in Threads :
          /\ pc[t] = "ad"
          /\ loc[t].ads # <<>>
          /\ Cur(t).priceKind = "bad"
          /\ AdId(Cur(t)) \notin seen_ads

\* The ids and timestamps of a history, in order.
Outline(hist) == [i \in DOMAIN hist |-> << hist[i].ad.id, hist[i].timestamp >>]

\* C14: loading what save_state wrote gives back the price band, minBuy and
\* maxBuy, the run and auto-start flags, and a history of the same length in
\* the same order; a top-level key the document lacks is filled from the
\* defaults, the keys it has keep their saved values.
C14_SaveLoadRoundTrip ==
    [][\A K \in MissingKeys :
          (main_pc' = "boot" /\ Reload(K)) =>
              /\ IF "price_range" \in K
                 THEN price_min' = DEFAULT_PRICE_MIN /\ price_max' = DEFAULT_PRICE_MAX
                 ELSE price_min' = disk.price_min /\ price_max' = disk.price_max
              /\ min_buy' = IF "min_buy" \in K THEN DEFAULT_MIN_BUY ELSE disk.min_buy
              /\ max_buy' = IF "max_buy" \in K THEN DEFAULT_MAX_BUY ELSE disk.max_buy
              /\ auto_start' = IF "auto_start" \in K THEN FALSE ELSE disk.auto_start
              /\ bot_running' = IF "bot_running" \in K THEN FALSE ELSE disk.bot_running
              /\ IF "history" \in K
                 THEN history' = <<>>
                 ELSE /\ Len(history') = Len(disk.history)
                      /\ Outline(history') = Outline(disk.history)]_vars

\* C14 witness: the state was loaded from a file saved with a band, a minBuy
\* and a flag that are not the defaults and with a history of three records,
\* one of which did not come back as it was saved.
C14_Witness_Reloaded ==
    /\ last_cmd = "load"
    /\ price_min = disk.price_min /\ price_min # DEFAULT_PRICE_MIN
    /\ min_buy = disk.min_buy /\ min_buy # DEFAULT_MIN_BUY
    /\ auto_start
    /\ Len(history) = 3
    /\ history # disk.history

\* The bands that were ever configured as a whole: the default and the ranges
\* the front end accepted.
ConfiguredBands ==
    { << DEFAULT_PRICE_MIN, DEFAULT_PRICE_MAX >> } \cup { r \in ranges : r[1] <= r[2] }

\* C15: the (min, max) a listing is acted on under is a band that was
\* configured as a whole, and the listing's price is inside a configured band.
C15_BandReadWhole ==
    \A t \in Threads :
        Acting(t) =>
            /\ << loc[t].pmin, loc[t].pmax >> \in ConfiguredBands
            /\ \E b \in ConfiguredBands : b[1] <= Cur(t).price /\ Cur(t).price <= b[2]

\* The listing has a price, is unseen, in the stored band and feasible.
Eligible(ad) ==
    /\ ad.priceKind = "num"
    /\ AdId(ad) \notin seen_ads
    /\ price_min <= ad.price /\ ad.price <= price_max
    /\ Max(FloatOf(min_buy), AdMin(ad)) <= AdMax(ad)

\* C16, step part: a worker's batch changes only by a fetch or by dropping
\* its first listing, so the listings are taken in the gateway's order; a
\* listing is left without an order call only if it is not eligible, whatever
\* became of the listings before it; an order call is for the first listing
\* of what is left, and its record goes to the head of history.
C16_Step ==
    \A t \in Threads :
        /\ loc'[t].ads # loc[t].ads =>
              \/ pc[t] = "fetch" /\ pc'[t] = "ad"
              \/ loc[t].ads # <<>> /\ loc'[t].ads = Tail(loc[t].ads)
        /\ (/\ pc[t] \in { "ad", "band" } /\ Moves(t) /\ loc[t].ads # <<>>
            /\ Eligible(Cur(t))) =>
              /\ pc'[t] \in { "band", "order" }
              /\ loc'[t].ads = loc[t].ads
        /\ (pc[t] = "order" /\ Moves(t)) =>
              /\ Len(attempts') = Len(attempts) + 1
              /\ attempts'[Len(attempts')].ad_id = AdId(Cur(t))
              /\ history' # <<>>
              /\ history'[1].ad.id = AdId(Cur(t))
              /\ Tail(history') = prune_history(history, now)
              /\ loc'[t].ads = loc[t].ads
        /\ (pc[t] \in { "notify", "seen" } /\ Moves(t)) =>
              /\ attempts' = attempts
              /\ history' = history
              /\ loc'[t].ads = IF pc[t] = "seen" THEN Tail(loc[t].ads) ELSE loc[t].ads

\* C16, state part: the records of the order calls sit in history in the
\* reverse of the order the calls were made in (nothing expiring meanwhile).
C16_HistoryReversesAttempts ==
    /\ Len(history) = Len(attempts)
    /\ \A i \in DOMAIN attempts :
          history[Len(attempts) - i + 1].ad.id = attempts[i].ad_id

\* C16: within a cycle the listings are considered in the gateway's order and
\* each eligible one is acted upon whatever happened to the others: k eligible
\* listings with distinct ids give k order calls in gateway order and k new
\* records at the head of history in reverse gateway order.
C16_BatchInOrder == []C16_HistoryReversesAttempts /\ [][C16_Step]_vars

\* C16 witness: the worker holds a batch of two eligible listings with
\* distinct ids; the order call for the first has failed and is recorded and
\* notified, the second is still to come.
C16_Witness_FirstOfTwoFailed ==
    /\ Len(attempts) = 1
    /\ Len(history) = 1
    /\ Len(notifs) = 1
    /\ \E t \in Threads :
          /\ pc[t] = "seen"
          /\ loc[t].resp = NullResp
          /\ Len(loc[t].ads) = 2
          /\ attempts[1].ad_id = AdId(loc[t].ads[1])
          /\ AdId(loc[t].ads[2]) # AdId(loc[t].ads[1])
          /\ Eligible(loc[t].ads[2])

SeenWithinCap == Cardinality(seen_ads) <= SeenCap

\* The end of a listing's processing adds its id to the seen set and, if that
\* takes the set over the cap, removes exactly one member.
SeenStep(t) ==
    IF Cardinality(seen_ads \cup { AdId(Cur(t)) }) > SeenCap
    THEN \E x \in seen_ads \cup { AdId(Cur(t)) } :
             seen_ads' = (seen_ads \cup { AdId(Cur(t)) }) \ { x }
    ELSE seen_ads' = seen_ads \cup { AdId(Cur(t)) }

\* C18 as stated: the seen set stays within its cap, going over it removes
\* exactly one member, and the id of the listing just acted upon is in the
\* set afterwards.
C18_JustAddedKept ==
    /\ []SeenWithinCap
    /\ [][\A t \in Threads :
             (pc[t] = "seen" /\ Moves(t)) =>
                 (SeenStep(t) /\ AdId(Cur(t)) \in seen_ads')]_vars

\* C18 amended: the seen set stays within its cap, and going over it removes
\* exactly one member, which may be any member, the id just added included.
C18_SeenSetBounded ==
    /\ []SeenWithinCap
    /\ [][/\ \A t \in Threads : (pc[t] = "seen" /\ Moves(t)) => SeenStep(t)
          /\ seen_ads' # seen_ads =>
                \E t \in Threads : pc[t] = "seen" /\ Moves(t)]_vars

\* C18 witness: the seen set is full and the worker is about to add the id of
\* a listing it has just acted upon.
C18_Witness_AddAtCap ==
    /\ Cardinality(seen_ads) = SeenCap
    /\ \E t \in Threads : pc[t] = "seen" /\ AdId(Cur(t)) \notin seen_ads

\* C19, state part: minBuy <= maxBuy, and the stored band has min <= max
\* whenever no range input is half written.
C19_BoundsOrdered ==
    /\ min_buy <= max_buy
    /\ fe_pc = "idle" => price_min <= price_max

\* C19, step part: a number n <= maxBuy becomes minBuy and leaves maxBuy, a
\* number n > maxBuy becomes maxBuy and leaves minBuy; the band is changed only
\* by a range with min <= max, min first, then max.
C19_Step ==
        /\ (min_buy' # min_buy \/ max_buy' # max_buy) =>
              \E n \in numbers :
                  IF n <= max_buy
                  THEN min_buy' = n /\ max_buy' = max_buy
                  ELSE max_buy' = n /\ min_buy' = min_buy
        /\ price_min' # price_min =>
              /\ << price_min', fe_pmax' >> \in ranges
              /\ price_min' <= fe_pmax'
              /\ fe_pc = "idle" /\ fe_pc' = "range"
              /\ price_max' = price_max
        /\ price_max' # price_max =>
              /\ fe_pc = "range" /\ fe_pc' = "idle"
              /\ price_max' = fe_pmax
              /\ price_min' = price_min

\* C19: numeric inputs keep minBuy <= maxBuy, a number going to minBuy when
\* it is <= maxBuy and to maxBuy otherwise; a range with min > max changes
\* nothing, so the stored band has min <= max after each completed input.
C19_InputsKeepOrder == []C19_BoundsOrdered /\ [][C19_Step]_vars

\* C19 witness: a number above maxBuy has raised maxBuy, a later number below
\* it has become minBuy, and a range has replaced the band.
C19_Witness_BothBoundsSet ==
    /\ max_buy = 2000000
    /\ min_buy = 1500000
    /\ price_min = 1456 /\ price_max = 1500
    /\ fe_pc = "idle"
    /\ disk.min_buy = min_buy /\ disk.max_buy = max_buy

\* C20: the amount of every order call is at least the minBuy the worker read
\* and at most the configured maxBuy, also when it was raised to the
\* listing's minLimit.
C20_AmountWithinBuyBounds ==
    \A t \in Threads :
        Acting(t) =>
            /\ loc[t].amount >= loc[t].min_buy
            /\ loc[t].amount <= max_buy

\* The order ids that order placement returned.
ReturnedOrderIds ==
    { OrderIdOf(notifs[i].resp) : i \in DOMAIN notifs } \ { "" }

\* C21: the gateway's mark-paid is called, and the operator told 'marked as
\* paid', only for an order id that an order placement returned; the button
\* of an attempt with a null result or no order id leads to neither.
C21_MarkPaidOnlyForReturnedIds ==
    \A p \in paid :
        (p.called \/ p.reply = "marked as paid") => p.order_id \in ReturnedOrderIds

====
